---- MODULE Spec2Model ----
(***************************************************************************)
(* Guest-side capability clients of tarmac-project/sdk (kv, sql,           *)
(* httpclient, function): request validation, the single host call, the    *)
(* decoding of the response envelope, the dispatch on the host status code *)
(* and the composition of the returned error.                              *)
(*                                                                         *)
(* A caller invokes one client operation at a time against a scripted host *)
(* function (the HostCall test seam); the operation runs to completion and *)
(* its outcome (result, error, host calls made) is recorded; the caller    *)
(* then takes the outcome and the client is idle again.                    *)
(***************************************************************************)
EXTENDS Integers, Sequences, FiniteSets, TLC

VARIABLES
    cfg,        \* the Config the client was constructed from
    client,     \* the constructed clients' runtime configuration
    pc,         \* "idle" | "done": position of the caller
    op,         \* name of the operation that ran last
    input,      \* the arguments that operation was called with
    host,       \* the scripted host response [payload, callErr]
    result,     \* the value the operation returned
    err,        \* the error the operation returned (<<>> is nil)
    calls,      \* the host calls the operation issued, in order
    hist        \* the completed operations of a stateful scenario, with outcomes

vars == <<cfg, client, pc, op, input, host, result, err, calls, hist>>

-----------------------------------------------------------------------------
(* Bounds *)

MaxStrLen == 2      \* longest key / query / function name
MaxCalls  == 3      \* operations a scenario runs against a stateful mock or host

-----------------------------------------------------------------------------
(* Strings are sequences of characters so that emptiness and trimming are  *)
(* computed, not assumed.                                                  *)

Chars == {"a", " "}

RECURSIVE SeqsUpTo(_, _)
SeqsUpTo(S, n) ==
    IF n = 0 THEN {<<>>}
    ELSE LET shorter == SeqsUpTo(S, n - 1)
         IN  shorter \cup {Append(s, c) : s \in {t \in shorter : Len(t) = n - 1}, c \in S}

Strings == SeqsUpTo(Chars, MaxStrLen)

\* strings.TrimSpace(s) == ""
RECURSIVE TrimSpaceIsEmpty(_)
TrimSpaceIsEmpty(s) ==
    IF s = <<>> THEN TRUE
    ELSE Head(s) = " " /\ TrimSpaceIsEmpty(Tail(s))

-----------------------------------------------------------------------------
(* Errors.  An error value is the flattened list of the causes reachable   *)
(* through Unwrap; errors.Join concatenates, nil is the empty list.        *)

Cause(id) == [id |-> id, code |-> 0, msg |-> ""]
Detail(id, code, msg) == [id |-> id, code |-> code, msg |-> msg]

NilErr == <<>>

ErrHostCall            == Cause("ErrHostCall")
ErrHostResponseInvalid == Cause("ErrHostResponseInvalid")
ErrHostError           == Cause("ErrHostError")
ErrInvalidKey          == Cause("ErrInvalidKey")
ErrInvalidValue        == Cause("ErrInvalidValue")
ErrKeyNotFound         == Cause("ErrKeyNotFound")
ErrInvalidQuery        == Cause("ErrInvalidQuery")
ErrUnmarshalResponse   == Cause("ErrUnmarshalResponse")
ErrPartialResult       == Cause("ErrPartialResult")
ErrInvalidURL          == Cause("ErrInvalidURL")
ErrReadBody            == Cause("ErrReadBody")
ErrInvalidMethod       == Cause("ErrInvalidMethod")
ErrNilRequest          == Cause("ErrNilRequest")
ErrInvalidFunctionName == Cause("ErrInvalidFunctionName")

\* the error values produced outside the SDK
TransportErr == Cause("transportErr")   \* what the host function returned
UnmarshalErr == Cause("unmarshalErr")   \* what UnmarshalVT returned
ReaderErr    == Cause("readerErr")      \* what the body reader returned

\* errors.Is(e, target)
Is(e, target) == \E i \in 1..Len(e) : e[i] = target

\* errors.Join(...) of non-nil causes
Join(causes) == causes

-----------------------------------------------------------------------------
(* The host response.  A payload is the set of wire fields the host       *)
(* encoded: an optional status sub-message, two capability-specific value  *)
(* fields (a zero value is not encoded) and possibly bytes that are not a  *)
(* valid field.  The empty payload encodes nothing.                        *)

statusOK       == 200
statusNotFound == 404
statusError    == 500

hostStatusOK       == 200
hostStatusPartial  == 206
hostStatusBadInput == 400
hostStatusMissing  == 404
hostStatusError    == 500

StatusCodes == {200, 206, 400, 404, 500, 777}
StatusMsgs  == {"", "m"}

\* the status pointer of a message: nil when no status field is present
NilStatus == [present |-> FALSE, code |-> 0, msg |-> ""]

Statuses == {NilStatus} \cup [present : {TRUE}, code : StatusCodes, msg : StatusMsgs]

Payloads == [status : Statuses, f1 : {0, 1, 200}, f2 : {0, 1}, junk : BOOLEAN]

EmptyPayload == [status |-> NilStatus, f1 |-> 0, f2 |-> 0, junk |-> FALSE]

\* len(respBytes) = 0
IsEmpty(p) == p = EmptyPayload

NoErr == "nil"
HostResponses == [payload : Payloads, callErr : {NoErr, "transportErr"}]

\* resp.UnmarshalVT(respBytes): an error on malformed bytes, else the message
UnmarshalVT(p) ==
    IF p.junk
    THEN [ok |-> FALSE, status |-> NilStatus, f1 |-> 0, f2 |-> 0]
    ELSE [ok |-> TRUE, status |-> p.status, f1 |-> p.f1, f2 |-> p.f2]

\* one host invocation as the host function sees it
Address(ns, cap, fn) == [ns |-> ns, cap |-> cap, fn |-> fn]

Outcome(res, e, cs) == [result |-> res, err |-> e, calls |-> cs]

-----------------------------------------------------------------------------
(* Client construction *)

DefaultNamespace == "tarmac"
Namespaces == {"", "custom"}

\* New: an empty namespace becomes the default
New(config) ==
    [runtime |-> [Namespace |-> IF config.Namespace = "" THEN DefaultNamespace
                                ELSE config.Namespace]]

\* variant: Config hands out the client's own configuration, not a copy
Config_ReturnsAlias(c) ==
    [alias |-> TRUE, value |-> c.runtime]

\* Config: the RuntimeConfig is returned by value
Config(c) ==
    [alias |-> FALSE, value |-> c.runtime]

\* a caller's assignment to the Namespace field of a value Config returned:
\* it reaches the client only through an alias
AssignNamespace(c, got, ns) ==
    IF got.alias THEN [c EXCEPT !.runtime.Namespace = ns] ELSE c

-----------------------------------------------------------------------------
(* kv client *)

NilBytes == 0       \* nil data / zero result of a KV operation

\* variant: a host-side failure status is reported as an invalid response
KVStatusErr_NoServerError(status, h) ==
    <<ErrHostResponseInvalid>>

KVStatusErr(status, h) ==
    IF status.present /\ status.code = statusError
    THEN IF h.callErr # NoErr
         THEN Join(<<ErrHostError, TransportErr>>)
         ELSE <<ErrHostError>>
    ELSE <<ErrHostResponseInvalid>>

\* variant: the transport cause is left out of a failed decode
KVDecodeErr_DropsTransport(h) ==
    Join(<<ErrHostResponseInvalid, UnmarshalErr>>)

KVDecodeErr(h) ==
    IF h.callErr # NoErr
    THEN Join(<<ErrHostCall, TransportErr, ErrHostResponseInvalid, UnmarshalErr>>)
    ELSE Join(<<ErrHostResponseInvalid, UnmarshalErr>>)

\* variant: a missing key is reported as a host failure
KVGet_NotFoundIsHostError(c, key, h) ==
    IF key = <<>> THEN Outcome(NilBytes, <<ErrInvalidKey>>, <<>>)
    ELSE
    LET cs   == <<Address(c.runtime.Namespace, "kvstore", "get")>>
        resp == UnmarshalVT(h.payload)
    IN  IF h.callErr # NoErr /\ IsEmpty(h.payload)
        THEN Outcome(NilBytes, Join(<<ErrHostCall, TransportErr>>), cs)
        ELSE IF ~resp.ok THEN Outcome(NilBytes, KVDecodeErr(h), cs)
        ELSE IF resp.status.present /\ resp.status.code = statusOK
             THEN Outcome(resp.f1, NilErr, cs)
        ELSE IF resp.status.present
                /\ (resp.status.code = statusNotFound \/ resp.status.code = statusError)
             THEN Outcome(NilBytes, <<ErrHostError>>, cs)
        ELSE Outcome(NilBytes, <<ErrHostResponseInvalid>>, cs)

\* variant: any transport error ends Get before the payload is inspected
KVGet_TransportFatal(c, key, h) ==
    IF key = <<>> THEN Outcome(NilBytes, <<ErrInvalidKey>>, <<>>)
    ELSE
    LET cs   == <<Address(c.runtime.Namespace, "kvstore", "get")>>
        resp == UnmarshalVT(h.payload)
    IN  IF h.callErr # NoErr
        THEN Outcome(NilBytes, Join(<<ErrHostCall, TransportErr>>), cs)
        ELSE IF ~resp.ok THEN Outcome(NilBytes, KVDecodeErr(h), cs)
        ELSE IF resp.status.present /\ resp.status.code = statusOK
             THEN Outcome(resp.f1, NilErr, cs)
        ELSE IF resp.status.present /\ resp.status.code = statusNotFound
             THEN Outcome(NilBytes, <<ErrKeyNotFound>>, cs)
        ELSE Outcome(NilBytes, KVStatusErr(resp.status, h), cs)

KVGet(c, key, h) ==
    IF key = <<>> THEN Outcome(NilBytes, <<ErrInvalidKey>>, <<>>)
    ELSE
    LET cs   == <<Address(c.runtime.Namespace, "kvstore", "get")>>
        resp == UnmarshalVT(h.payload)
    IN  IF h.callErr # NoErr /\ IsEmpty(h.payload)
        THEN Outcome(NilBytes, Join(<<ErrHostCall, TransportErr>>), cs)
        ELSE IF ~resp.ok THEN Outcome(NilBytes, KVDecodeErr(h), cs)
        ELSE IF resp.status.present /\ resp.status.code = statusOK
             THEN Outcome(resp.f1, NilErr, cs)
        ELSE IF resp.status.present /\ resp.status.code = statusNotFound
             THEN Outcome(NilBytes, <<ErrKeyNotFound>>, cs)
        ELSE Outcome(NilBytes, KVStatusErr(resp.status, h), cs)

KVSet(c, key, value, h) ==
    IF key = <<>> THEN Outcome(NilBytes, <<ErrInvalidKey>>, <<>>)
    ELSE IF Len(value.b) = 0 THEN Outcome(NilBytes, <<ErrInvalidValue>>, <<>>)
    ELSE
    LET cs   == <<Address(c.runtime.Namespace, "kvstore", "set")>>
        resp == UnmarshalVT(h.payload)
    IN  IF h.callErr # NoErr /\ IsEmpty(h.payload)
        THEN Outcome(NilBytes, Join(<<ErrHostCall, TransportErr>>), cs)
        ELSE IF ~resp.ok THEN Outcome(NilBytes, KVDecodeErr(h), cs)
        ELSE IF resp.status.present /\ resp.status.code = statusOK
             THEN Outcome(NilBytes, NilErr, cs)
        ELSE Outcome(NilBytes, KVStatusErr(resp.status, h), cs)

\* variant: deleting a missing key is not treated as a success
KVDelete_NotFoundIsError(c, key, h) ==
    IF key = <<>> THEN Outcome(NilBytes, <<ErrInvalidKey>>, <<>>)
    ELSE
    LET cs   == <<Address(c.runtime.Namespace, "kvstore", "delete")>>
        resp == UnmarshalVT(h.payload)
    IN  IF h.callErr # NoErr /\ IsEmpty(h.payload)
        THEN Outcome(NilBytes, Join(<<ErrHostCall, TransportErr>>), cs)
        ELSE IF ~resp.ok THEN Outcome(NilBytes, KVDecodeErr(h), cs)
        ELSE IF resp.status.present /\ resp.status.code = statusOK
             THEN Outcome(NilBytes, NilErr, cs)
        ELSE Outcome(NilBytes, KVStatusErr(resp.status, h), cs)

\* variant: Delete issues the host call without looking at the key
KVDelete_NoKeyCheck(c, key, h) ==
    LET cs   == <<Address(c.runtime.Namespace, "kvstore", "delete")>>
        resp == UnmarshalVT(h.payload)
    IN  IF h.callErr # NoErr /\ IsEmpty(h.payload)
        THEN Outcome(NilBytes, Join(<<ErrHostCall, TransportErr>>), cs)
        ELSE IF ~resp.ok THEN Outcome(NilBytes, KVDecodeErr(h), cs)
        ELSE IF resp.status.present
                /\ (resp.status.code = statusOK \/ resp.status.code = statusNotFound)
             THEN Outcome(NilBytes, NilErr, cs)
        ELSE Outcome(NilBytes, KVStatusErr(resp.status, h), cs)

KVDelete(c, key, h) ==
    IF key = <<>> THEN Outcome(NilBytes, <<ErrInvalidKey>>, <<>>)
    ELSE
    LET cs   == <<Address(c.runtime.Namespace, "kvstore", "delete")>>
        resp == UnmarshalVT(h.payload)
    IN  IF h.callErr # NoErr /\ IsEmpty(h.payload)
        THEN Outcome(NilBytes, Join(<<ErrHostCall, TransportErr>>), cs)
        ELSE IF ~resp.ok THEN Outcome(NilBytes, KVDecodeErr(h), cs)
        ELSE IF resp.status.present
                /\ (resp.status.code = statusOK \/ resp.status.code = statusNotFound)
             THEN Outcome(NilBytes, NilErr, cs)
        ELSE Outcome(NilBytes, KVStatusErr(resp.status, h), cs)

KVKeys(c, h) ==
    LET cs   == <<Address(c.runtime.Namespace, "kvstore", "keys")>>
        resp == UnmarshalVT(h.payload)
    IN  IF h.callErr # NoErr /\ IsEmpty(h.payload)
        THEN Outcome(NilBytes, Join(<<ErrHostCall, TransportErr>>), cs)
        ELSE IF ~resp.ok THEN Outcome(NilBytes, KVDecodeErr(h), cs)
        ELSE IF resp.status.present /\ resp.status.code = statusOK
             THEN Outcome(resp.f1, NilErr, cs)
        ELSE Outcome(NilBytes, KVStatusErr(resp.status, h), cs)

\* []byte values handed to Set: nil, empty, and a non-empty one
Values == {[nil |-> TRUE, b |-> <<>>], [nil |-> FALSE, b |-> <<>>], [nil |-> FALSE, b |-> <<1>>]}

-----------------------------------------------------------------------------
(* sql client *)

ZeroExecResult  == [LastInsertID |-> 0, RowsAffected |-> 0]
ZeroQueryResult == [Columns |-> 0, Data |-> 0]

\* variant: an unknown status code is reported as a host failure
validateStatus_UnknownIsHostError(status, callErr) ==
    IF ~status.present
    THEN IF callErr # NoErr
         THEN Join(<<ErrHostCall, TransportErr, ErrHostResponseInvalid>>)
         ELSE <<ErrHostResponseInvalid>>
    ELSE IF status.code \in {hostStatusOK, hostStatusPartial}
    THEN NilErr
    ELSE IF callErr # NoErr
         THEN Join(<<ErrHostCall, TransportErr, ErrHostError,
                     Detail("host status", status.code, status.msg)>>)
         ELSE Join(<<ErrHostError, Detail("host status", status.code, status.msg)>>)

\* variant: a failure status without message text is taken for an invalid response
validateStatus_ByMessage(status, callErr) ==
    IF ~status.present
    THEN IF callErr # NoErr
         THEN Join(<<ErrHostCall, TransportErr, ErrHostResponseInvalid>>)
         ELSE <<ErrHostResponseInvalid>>
    ELSE IF status.code \in {hostStatusOK, hostStatusPartial}
    THEN NilErr
    ELSE IF status.code \in {hostStatusBadInput, hostStatusMissing, hostStatusError}
            /\ status.msg # ""
    THEN IF callErr # NoErr
         THEN Join(<<ErrHostCall, TransportErr, ErrHostError,
                     Detail("host status", status.code, status.msg)>>)
         ELSE Join(<<ErrHostError, Detail("host status", status.code, status.msg)>>)
    ELSE IF callErr # NoErr
         THEN Join(<<ErrHostCall, TransportErr, ErrHostResponseInvalid,
                     Detail("unexpected host status code", status.code, "")>>)
         ELSE Join(<<ErrHostResponseInvalid,
                     Detail("unexpected host status code", status.code, "")>>)

\* variant: a transport error is reported even when the status is a success
validateStatus_TransportFatal(status, callErr) ==
    IF callErr # NoErr
    THEN Join(<<ErrHostCall, TransportErr>>)
    ELSE IF ~status.present
    THEN <<ErrHostResponseInvalid>>
    ELSE IF status.code \in {hostStatusOK, hostStatusPartial}
    THEN NilErr
    ELSE IF status.code \in {hostStatusBadInput, hostStatusMissing, hostStatusError}
    THEN Join(<<ErrHostError, Detail("host status", status.code, status.msg)>>)
    ELSE Join(<<ErrHostResponseInvalid,
                Detail("unexpected host status code", status.code, "")>>)

validateStatus(status, callErr) ==
    IF ~status.present
    THEN IF callErr # NoErr
         THEN Join(<<ErrHostCall, TransportErr, ErrHostResponseInvalid>>)
         ELSE <<ErrHostResponseInvalid>>
    ELSE IF status.code \in {hostStatusOK, hostStatusPartial}
    THEN NilErr
    ELSE IF status.code \in {hostStatusBadInput, hostStatusMissing, hostStatusError}
    THEN IF callErr # NoErr
         THEN Join(<<ErrHostCall, TransportErr, ErrHostError,
                     Detail("host status", status.code, status.msg)>>)
         ELSE Join(<<ErrHostError, Detail("host status", status.code, status.msg)>>)
    ELSE IF callErr # NoErr
         THEN Join(<<ErrHostCall, TransportErr, ErrHostResponseInvalid,
                     Detail("unexpected host status code", status.code, "")>>)
         ELSE Join(<<ErrHostResponseInvalid,
                     Detail("unexpected host status code", status.code, "")>>)

SQLDecodeErr(h) ==
    IF h.callErr # NoErr
    THEN Join(<<ErrHostCall, TransportErr, ErrHostResponseInvalid,
                ErrUnmarshalResponse, UnmarshalErr>>)
    ELSE Join(<<ErrHostResponseInvalid, ErrUnmarshalResponse, UnmarshalErr>>)

\* variant: the two result fields are taken from each other's envelope field
Exec_SwappedFields(c, query, h) ==
    IF query = <<>> THEN Outcome(ZeroExecResult, <<ErrInvalidQuery>>, <<>>)
    ELSE
    LET cs   == <<Address(c.runtime.Namespace, "sql", "exec")>>
        resp == UnmarshalVT(h.payload)
        statusErr == validateStatus(resp.status, h.callErr)
    IN  IF h.callErr # NoErr /\ IsEmpty(h.payload)
        THEN Outcome(ZeroExecResult, Join(<<ErrHostCall, TransportErr>>), cs)
        ELSE IF ~resp.ok THEN Outcome(ZeroExecResult, SQLDecodeErr(h), cs)
        ELSE IF statusErr # NilErr THEN Outcome(ZeroExecResult, statusErr, cs)
        ELSE Outcome([LastInsertID |-> resp.f2, RowsAffected |-> resp.f1], NilErr, cs)

Exec(c, query, h) ==
    IF query = <<>> THEN Outcome(ZeroExecResult, <<ErrInvalidQuery>>, <<>>)
    ELSE
    LET cs   == <<Address(c.runtime.Namespace, "sql", "exec")>>
        resp == UnmarshalVT(h.payload)
        statusErr == validateStatus(resp.status, h.callErr)
    IN  IF h.callErr # NoErr /\ IsEmpty(h.payload)
        THEN Outcome(ZeroExecResult, Join(<<ErrHostCall, TransportErr>>), cs)
        ELSE IF ~resp.ok THEN Outcome(ZeroExecResult, SQLDecodeErr(h), cs)
        ELSE IF statusErr # NilErr THEN Outcome(ZeroExecResult, statusErr, cs)
        ELSE Outcome([LastInsertID |-> resp.f1, RowsAffected |-> resp.f2], NilErr, cs)

\* variant: a failed host call is issued a second time
Query_RetriesOnTransportError(c, query, h) ==
    IF query = <<>> THEN Outcome(ZeroQueryResult, <<ErrInvalidQuery>>, <<>>)
    ELSE
    LET cs   == <<Address(c.runtime.Namespace, "sql", "query")>>
        resp == UnmarshalVT(h.payload)
        statusErr == validateStatus(resp.status, h.callErr)
        issued == IF h.callErr # NoErr THEN cs \o cs ELSE cs
    IN  IF h.callErr # NoErr /\ IsEmpty(h.payload)
        THEN Outcome(ZeroQueryResult, Join(<<ErrHostCall, TransportErr>>), issued)
        ELSE IF ~resp.ok THEN Outcome(ZeroQueryResult, SQLDecodeErr(h), issued)
        ELSE IF statusErr # NilErr THEN Outcome(ZeroQueryResult, statusErr, issued)
        ELSE Outcome([Columns |-> resp.f1, Data |-> resp.f2], NilErr, issued)

Query(c, query, h) ==
    IF query = <<>> THEN Outcome(ZeroQueryResult, <<ErrInvalidQuery>>, <<>>)
    ELSE
    LET cs   == <<Address(c.runtime.Namespace, "sql", "query")>>
        resp == UnmarshalVT(h.payload)
        statusErr == validateStatus(resp.status, h.callErr)
    IN  IF h.callErr # NoErr /\ IsEmpty(h.payload)
        THEN Outcome(ZeroQueryResult, Join(<<ErrHostCall, TransportErr>>), cs)
        ELSE IF ~resp.ok THEN Outcome(ZeroQueryResult, SQLDecodeErr(h), cs)
        ELSE IF statusErr # NilErr THEN Outcome(ZeroQueryResult, statusErr, cs)
        ELSE Outcome([Columns |-> resp.f1, Data |-> resp.f2], NilErr, cs)

-----------------------------------------------------------------------------
(* httpclient *)

\* URL strings as token sequences:  ""  "://h"  "http://h"  "//h"  "http:"
URLs == {<<>>, <<":", "//h">>, <<"http:", "//h">>, <<"//h">>, <<"http:">>}

\* url.Parse: a leading colon is a missing scheme; the authority, when there
\* is one, follows the scheme directly
Parse(u) ==
    IF u # <<>> /\ u[1] = ":" THEN [err |-> TRUE, nil |-> TRUE, Host |-> ""]
    ELSE IF u # <<>> /\ u[1] = "//h" THEN [err |-> FALSE, nil |-> FALSE, Host |-> "h"]
    ELSE IF Len(u) > 1 /\ u[1] = "http:" /\ u[2] = "//h"
         THEN [err |-> FALSE, nil |-> FALSE, Host |-> "h"]
    ELSE [err |-> FALSE, nil |-> FALSE, Host |-> ""]

\* the URL validation shared by Get, Post, Put, Delete and NewRequest
InvalidURL(u) == Parse(u).err \/ Parse(u).nil \/ Parse(u).Host = ""

\* body readers: none, one that yields bytes, one that fails
Bodies == {"nil", "ok", "bad"}

\* io.ReadAll(body) fails
ReadFails(body) == body # "nil" /\ body = "bad"

\* http.StatusText(code)
StatusText(code) ==
    IF code = 200 THEN "OK"
    ELSE IF code = 404 THEN "Not Found"
    ELSE IF code = 500 THEN "Internal Server Error"
    ELSE ""

ZeroResponse == [StatusCode |-> 0, Status |-> "", Body |-> 0]

\* variant: the host status code is reported as the HTTP status of the response
doHTTPCall_MergesCodes(c, h) ==
    LET cs     == <<Address(c.runtime.Namespace, "httpclient", "call")>>
        r      == UnmarshalVT(h.payload)
        status == r.status
    IN  IF h.callErr # NoErr
        THEN Outcome(ZeroResponse, Join(<<ErrHostCall, TransportErr>>), cs)
        ELSE IF ~r.ok
        THEN Outcome(ZeroResponse, Join(<<ErrUnmarshalResponse, UnmarshalErr>>), cs)
        ELSE IF ~status.present
        THEN Outcome(ZeroResponse, <<ErrHostResponseInvalid>>, cs)
        ELSE IF status.code \in {hostStatusOK, hostStatusPartial}
        THEN Outcome([StatusCode |-> status.code, Status |-> StatusText(status.code),
                      Body |-> r.f2],
                     NilErr, cs)
        ELSE IF status.code \in {hostStatusBadInput, hostStatusMissing, hostStatusError}
        THEN Outcome(ZeroResponse,
                     Join(<<ErrHostError, Detail("host status", status.code, status.msg)>>),
                     cs)
        ELSE Outcome(ZeroResponse,
                     Join(<<ErrHostResponseInvalid,
                            Detail("unexpected host status code", status.code, "")>>),
                     cs)

\* variant: a response without a status is taken for a success
doHTTPCall_NilStatusOK(c, h) ==
    LET cs     == <<Address(c.runtime.Namespace, "httpclient", "call")>>
        r      == UnmarshalVT(h.payload)
        status == r.status
    IN  IF h.callErr # NoErr
        THEN Outcome(ZeroResponse, Join(<<ErrHostCall, TransportErr>>), cs)
        ELSE IF ~r.ok
        THEN Outcome(ZeroResponse, Join(<<ErrUnmarshalResponse, UnmarshalErr>>), cs)
        ELSE IF ~status.present \/ status.code \in {hostStatusOK, hostStatusPartial}
        THEN Outcome([StatusCode |-> r.f1, Status |-> StatusText(r.f1), Body |-> r.f2],
                     NilErr, cs)
        ELSE IF status.code \in {hostStatusBadInput, hostStatusMissing, hostStatusError}
        THEN Outcome(ZeroResponse,
                     Join(<<ErrHostError, Detail("host status", status.code, status.msg)>>),
                     cs)
        ELSE Outcome(ZeroResponse,
                     Join(<<ErrHostResponseInvalid,
                            Detail("unexpected host status code", status.code, "")>>),
                     cs)

\* variant: only status 200 continues on the success path
doHTTPCall_PartialRejected(c, h) ==
    LET cs     == <<Address(c.runtime.Namespace, "httpclient", "call")>>
        r      == UnmarshalVT(h.payload)
        status == r.status
    IN  IF h.callErr # NoErr
        THEN Outcome(ZeroResponse, Join(<<ErrHostCall, TransportErr>>), cs)
        ELSE IF ~r.ok
        THEN Outcome(ZeroResponse, Join(<<ErrUnmarshalResponse, UnmarshalErr>>), cs)
        ELSE IF ~status.present
        THEN Outcome(ZeroResponse, <<ErrHostResponseInvalid>>, cs)
        ELSE IF status.code = hostStatusOK
        THEN Outcome([StatusCode |-> r.f1, Status |-> StatusText(r.f1), Body |-> r.f2],
                     NilErr, cs)
        ELSE IF status.code \in {hostStatusBadInput, hostStatusMissing, hostStatusError}
        THEN Outcome(ZeroResponse,
                     Join(<<ErrHostError, Detail("host status", status.code, status.msg)>>),
                     cs)
        ELSE Outcome(ZeroResponse,
                     Join(<<ErrHostResponseInvalid,
                            Detail("unexpected host status code", status.code, "")>>),
                     cs)

\* variant: the payload is inspected although the host call failed
doHTTPCall_InspectsPayload(c, h) ==
    LET cs     == <<Address(c.runtime.Namespace, "httpclient", "call")>>
        r      == UnmarshalVT(h.payload)
        status == r.status
    IN  IF h.callErr # NoErr /\ IsEmpty(h.payload)
        THEN Outcome(ZeroResponse, Join(<<ErrHostCall, TransportErr>>), cs)
        ELSE IF ~r.ok
        THEN Outcome(ZeroResponse, Join(<<ErrUnmarshalResponse, UnmarshalErr>>), cs)
        ELSE IF ~status.present
        THEN Outcome(ZeroResponse, <<ErrHostResponseInvalid>>, cs)
        ELSE IF status.code \in {hostStatusOK, hostStatusPartial}
        THEN Outcome([StatusCode |-> r.f1, Status |-> StatusText(r.f1), Body |-> r.f2],
                     NilErr, cs)
        ELSE Outcome(ZeroResponse,
                     Join(<<ErrHostError, Detail("host status", status.code, status.msg)>>),
                     cs)

doHTTPCall(c, h) ==
    LET cs     == <<Address(c.runtime.Namespace, "httpclient", "call")>>
        r      == UnmarshalVT(h.payload)
        status == r.status
    IN  IF h.callErr # NoErr
        THEN Outcome(ZeroResponse, Join(<<ErrHostCall, TransportErr>>), cs)
        ELSE IF ~r.ok
        THEN Outcome(ZeroResponse, Join(<<ErrUnmarshalResponse, UnmarshalErr>>), cs)
        ELSE IF ~status.present
        THEN Outcome(ZeroResponse, <<ErrHostResponseInvalid>>, cs)
        ELSE IF status.code \in {hostStatusOK, hostStatusPartial}
        THEN Outcome([StatusCode |-> r.f1, Status |-> StatusText(r.f1), Body |-> r.f2],
                     NilErr, cs)
        ELSE IF status.code \in {hostStatusBadInput, hostStatusMissing, hostStatusError}
        THEN Outcome(ZeroResponse,
                     Join(<<ErrHostError, Detail("host status", status.code, status.msg)>>),
                     cs)
        ELSE Outcome(ZeroResponse,
                     Join(<<ErrHostResponseInvalid,
                            Detail("unexpected host status code", status.code, "")>>),
                     cs)

HTTPGet(c, u, h) ==
    IF InvalidURL(u) THEN Outcome(ZeroResponse, <<ErrInvalidURL>>, <<>>)
    ELSE doHTTPCall(c, h)

\* variant: the body is read only after the host call was issued
Post_ReadsAfterCall(c, u, body, h) ==
    IF InvalidURL(u) THEN Outcome(ZeroResponse, <<ErrInvalidURL>>, <<>>)
    ELSE IF ReadFails(body)
    THEN Outcome(ZeroResponse, Join(<<ErrReadBody, ReaderErr>>), doHTTPCall(c, h).calls)
    ELSE doHTTPCall(c, h)

Post(c, u, body, h) ==
    IF InvalidURL(u) THEN Outcome(ZeroResponse, <<ErrInvalidURL>>, <<>>)
    ELSE IF ReadFails(body)
    THEN Outcome(ZeroResponse, Join(<<ErrReadBody, ReaderErr>>), <<>>)
    ELSE doHTTPCall(c, h)

Put(c, u, body, h) ==
    IF InvalidURL(u) THEN Outcome(ZeroResponse, <<ErrInvalidURL>>, <<>>)
    ELSE IF ReadFails(body)
    THEN Outcome(ZeroResponse, Join(<<ErrReadBody, ReaderErr>>), <<>>)
    ELSE doHTTPCall(c, h)

HTTPDelete(c, u, h) ==
    IF InvalidURL(u) THEN Outcome(ZeroResponse, <<ErrInvalidURL>>, <<>>)
    ELSE doHTTPCall(c, h)

Methods == {"GET", "PATCH", "BOGUS"}

isValidMethod(method) ==
    method \in {"GET", "HEAD", "POST", "PUT", "PATCH", "DELETE", "CONNECT", "OPTIONS", "TRACE"}

\* a *Request: nil, or a Request whose URL is nil or a parsed URL
NilRequest == [nil |-> TRUE, Method |-> "", URL |-> [nil |-> TRUE, Host |-> ""], Body |-> "nil"]

Requests ==
    {NilRequest} \cup
    [nil : {FALSE}, Method : Methods, Body : Bodies,
     URL : {[nil |-> TRUE, Host |-> ""], [nil |-> FALSE, Host |-> ""], [nil |-> FALSE, Host |-> "h"]}]

\* variant: Do hands the request to the host without looking at its URL
Do_NoURLCheck(c, req, h) ==
    IF req.nil THEN Outcome(ZeroResponse, <<ErrNilRequest>>, <<>>)
    ELSE IF ReadFails(req.Body)
    THEN Outcome(ZeroResponse, Join(<<ErrReadBody, ReaderErr>>), <<>>)
    ELSE doHTTPCall(c, h)

Do(c, req, h) ==
    IF req.nil THEN Outcome(ZeroResponse, <<ErrNilRequest>>, <<>>)
    ELSE IF req.URL.nil \/ req.URL.Host = ""
    THEN Outcome(ZeroResponse, <<ErrInvalidURL>>, <<>>)
    ELSE IF ReadFails(req.Body)
    THEN Outcome(ZeroResponse, Join(<<ErrReadBody, ReaderErr>>), <<>>)
    ELSE doHTTPCall(c, h)

NewRequest(method, u, body) ==
    IF ~isValidMethod(method) THEN Outcome(NilRequest, <<ErrInvalidMethod>>, <<>>)
    ELSE IF InvalidURL(u) THEN Outcome(NilRequest, <<ErrInvalidURL>>, <<>>)
    ELSE Outcome([nil |-> FALSE, Method |-> method, Body |-> body,
                  URL |-> [nil |-> FALSE, Host |-> Parse(u).Host]], NilErr, <<>>)

-----------------------------------------------------------------------------
(* function client *)

\* variant: the host's error is replaced by the sentinel alone
Call_DropsCause(c, name, h) ==
    IF TrimSpaceIsEmpty(name) THEN Outcome(EmptyPayload, <<ErrInvalidFunctionName>>, <<>>)
    ELSE
    LET cs == <<Address(c.runtime.Namespace, "function", name)>>
    IN  IF h.callErr # NoErr
        THEN Outcome(EmptyPayload, <<ErrHostCall>>, cs)
        ELSE Outcome(h.payload, NilErr, cs)

Call(c, name, h) ==
    IF TrimSpaceIsEmpty(name) THEN Outcome(EmptyPayload, <<ErrInvalidFunctionName>>, <<>>)
    ELSE
    LET cs == <<Address(c.runtime.Namespace, "function", name)>>
    IN  IF h.callErr # NoErr
        THEN Outcome(EmptyPayload, Join(<<ErrHostCall, TransportErr>>), cs)
        ELSE Outcome(h.payload, NilErr, cs)

-----------------------------------------------------------------------------
(* The operations of the three envelope-based clients by name *)

Run(c, name, in, h) ==
    CASE name = "kv.Get"      -> KVGet(c, in.s, h)
      [] name = "kv.Set"      -> KVSet(c, in.s, in.value, h)
      [] name = "kv.Delete"   -> KVDelete(c, in.s, h)
      [] name = "kv.Keys"     -> KVKeys(c, h)
      [] name = "sql.Exec"    -> Exec(c, in.s, h)
      [] name = "sql.Query"   -> Query(c, in.s, h)
      [] name = "http.Get"    -> HTTPGet(c, in.url, h)
      [] name = "http.Post"   -> Post(c, in.url, in.body, h)
      [] name = "http.Put"    -> Put(c, in.url, in.body, h)
      [] name = "http.Delete" -> HTTPDelete(c, in.url, h)
      [] name = "http.Do"     -> Do(c, in.req, h)

-----------------------------------------------------------------------------
(* The caller: one operation at a time against a scripted host *)

NoInput == [s |-> <<>>, value |-> [nil |-> TRUE, b |-> <<>>], url |-> <<>>,
            body |-> "nil", method |-> "", req |-> NilRequest]

NoHost == [payload |-> EmptyPayload, callErr |-> NoErr]

KVOps   == {"kv.Get", "kv.Set", "kv.Delete", "kv.Keys"}
SQLOps  == {"sql.Exec", "sql.Query"}
HTTPOps == {"http.Get", "http.Post", "http.Put", "http.Delete", "http.Do"}

Init ==
    /\ cfg \in [Namespace : Namespaces]
    /\ client = New(cfg)
    /\ pc = "idle"
    /\ op = "none"
    /\ input = NoInput
    /\ host = NoHost
    /\ result = 0
    /\ err = NilErr
    /\ calls = <<>>
    /\ hist = <<>>

\* the operation runs to completion and its outcome is recorded
Invoke(name, in, h, out) ==
    /\ pc' = "done"
    /\ op' = name
    /\ input' = in
    /\ host' = h
    /\ result' = out.result
    /\ err' = out.err
    /\ calls' = out.calls
    /\ UNCHANGED <<cfg, client, hist>>

CallKVGet ==
    /\ pc = "idle"
    /\ \E key \in Strings, h \in HostResponses :
           Invoke("kv.Get", [NoInput EXCEPT !.s = key], h, KVGet(client, key, h))

CallKVSet ==
    /\ pc = "idle"
    /\ \E key \in Strings, value \in Values, h \in HostResponses :
           Invoke("kv.Set", [NoInput EXCEPT !.s = key, !.value = value], h,
                  KVSet(client, key, value, h))

CallKVDelete ==
    /\ pc = "idle"
    /\ \E key \in Strings, h \in HostResponses :
           Invoke("kv.Delete", [NoInput EXCEPT !.s = key], h, KVDelete(client, key, h))

CallKVKeys ==
    /\ pc = "idle"
    /\ \E h \in HostResponses :
           Invoke("kv.Keys", NoInput, h, KVKeys(client, h))

CallExec ==
    /\ pc = "idle"
    /\ \E query \in Strings, h \in HostResponses :
           Invoke("sql.Exec", [NoInput EXCEPT !.s = query], h, Exec(client, query, h))

CallQuery ==
    /\ pc = "idle"
    /\ \E query \in Strings, h \in HostResponses :
           Invoke("sql.Query", [NoInput EXCEPT !.s = query], h, Query(client, query, h))

CallHTTPGet ==
    /\ pc = "idle"
    /\ \E u \in URLs, h \in HostResponses :
           Invoke("http.Get", [NoInput EXCEPT !.url = u], h, HTTPGet(client, u, h))

CallPost ==
    /\ pc = "idle"
    /\ \E u \in URLs, body \in Bodies, h \in HostResponses :
           Invoke("http.Post", [NoInput EXCEPT !.url = u, !.body = body], h,
                  Post(client, u, body, h))

CallPut ==
    /\ pc = "idle"
    /\ \E u \in URLs, body \in Bodies, h \in HostResponses :
           Invoke("http.Put", [NoInput EXCEPT !.url = u, !.body = body], h,
                  Put(client, u, body, h))

CallHTTPDelete ==
    /\ pc = "idle"
    /\ \E u \in URLs, h \in HostResponses :
           Invoke("http.Delete", [NoInput EXCEPT !.url = u], h, HTTPDelete(client, u, h))

CallDo ==
    /\ pc = "idle"
    /\ \E req \in Requests, h \in HostResponses :
           Invoke("http.Do", [NoInput EXCEPT !.req = req], h, Do(client, req, h))

CallNewRequest ==
    /\ pc = "idle"
    /\ \E method \in Methods, u \in URLs, body \in Bodies :
           Invoke("http.NewRequest",
                  [NoInput EXCEPT !.method = method, !.url = u, !.body = body],
                  NoHost, NewRequest(method, u, body))

CallFunction ==
    /\ pc = "idle"
    /\ \E name \in Strings, h \in HostResponses :
           Invoke("function.Call", [NoInput EXCEPT !.s = name], h, Call(client, name, h))

CallConfig ==
    /\ pc = "idle"
    /\ Invoke("kv.Config", NoInput, NoHost, Outcome(Config(client), NilErr, <<>>))

\* the caller writes to the configuration it was handed
MutateConfig ==
    /\ pc = "done"
    /\ op = "kv.Config"
    /\ result.value.Namespace # "mutated"
    /\ result' = [result EXCEPT !.value.Namespace = "mutated"]
    /\ client' = AssignNamespace(client, result, "mutated")
    /\ UNCHANGED <<cfg, pc, op, input, host, err, calls, hist>>

\* the caller takes the outcome; nothing of the call is retained
Return ==
    /\ pc = "done"
    /\ pc' = "idle"
    /\ op' = "none"
    /\ input' = NoInput
    /\ host' = NoHost
    /\ result' = 0
    /\ err' = NilErr
    /\ calls' = <<>>
    /\ UNCHANGED <<cfg, client, hist>>

Next ==
    \/ CallKVGet
    \/ CallKVSet
    \/ CallKVDelete
    \/ CallKVKeys
    \/ CallExec
    \/ CallQuery
    \/ CallHTTPGet
    \/ CallPost
    \/ CallPut
    \/ CallHTTPDelete
    \/ CallDo
    \/ CallNewRequest
    \/ CallFunction
    \/ CallConfig
    \/ MutateConfig
    \/ Return

Spec == Init /\ [][Next]_vars

-----------------------------------------------------------------------------
(* hostmock: the scripted host used by the tests *)

ErrUnexpectedNamespace  == Cause("ErrUnexpectedNamespace")
ErrUnexpectedCapability == Cause("ErrUnexpectedCapability")
ErrUnexpectedFunction   == Cause("ErrUnexpectedFunction")
ErrOperationFailed      == Cause("ErrOperationFailed")
ErrMockError            == Cause("ErrMockError")       \* a custom Config.Error
ValidatorErr            == Cause("validatorErr")       \* what a PayloadValidator returns

NoBytes == "nil"                                        \* a nil []byte
RoutingNames == {"", "test", "other"}

\* Config.Error, Config.PayloadValidator and Config.Response may each be nil
HostMockConfigs ==
    [ExpectedNamespace  : {"", "test"},
     ExpectedCapability : {"", "test"},
     ExpectedFunction   : {"", "test"},
     Error              : {"nil", "ErrMockError"},
     PayloadValidator   : {"nil", "accept", "reject"},
     Response           : {"nil", "bytes"},
     Fail               : BOOLEAN]

HostMockNew(config) ==
    [ExpectedNamespace  |-> config.ExpectedNamespace,
     ExpectedCapability |-> config.ExpectedCapability,
     ExpectedFunction   |-> config.ExpectedFunction,
     Error              |-> config.Error,
     Fail               |-> config.Fail,
     PayloadValidator   |-> config.PayloadValidator,
     Response           |-> config.Response]

HostCall(m, namespace, capability, function) ==
    IF m.Fail /\ m.Error # "nil" THEN Outcome(NoBytes, <<ErrMockError>>, <<>>)
    ELSE IF m.Fail THEN Outcome(NoBytes, <<ErrOperationFailed>>, <<>>)
    ELSE IF m.ExpectedNamespace # namespace
    THEN Outcome(NoBytes, <<ErrUnexpectedNamespace>>, <<>>)
    ELSE IF m.ExpectedCapability # capability
    THEN Outcome(NoBytes, <<ErrUnexpectedCapability>>, <<>>)
    ELSE IF m.ExpectedFunction # function
    THEN Outcome(NoBytes, <<ErrUnexpectedFunction>>, <<>>)
    ELSE IF m.PayloadValidator = "reject"
    THEN Outcome(NoBytes, <<ValidatorErr>>, <<>>)
    ELSE IF m.Response # "nil" THEN Outcome("bytes", NilErr, <<>>)
    ELSE Outcome(NoBytes, NilErr, <<>>)

HostMockInit ==
    /\ cfg \in HostMockConfigs
    /\ client = HostMockNew(cfg)
    /\ pc = "idle"
    /\ op = "none"
    /\ input = NoInput
    /\ host = NoHost
    /\ result = 0
    /\ err = NilErr
    /\ calls = <<>>
    /\ hist = <<>>

CallHostCall ==
    /\ pc = "idle"
    /\ \E namespace \in RoutingNames, capability \in RoutingNames, function \in RoutingNames :
           Invoke("hostmock.HostCall",
                  [namespace |-> namespace, capability |-> capability, function |-> function],
                  NoHost, HostCall(client, namespace, capability, function))

HostMockNext ==
    \/ CallHostCall
    \/ Return

HostMockSpec == HostMockInit /\ [][HostMockNext]_vars

-----------------------------------------------------------------------------
(* kv/mock: the in-memory stand-in for the kv client *)

opGet    == "GET"
opSet    == "SET"
opDelete == "DELETE"
opKeys   == "KEYS"

\* keys are byte strings, so that their order is computed
MockKeyNames == {<<>>, <<1>>, <<1, 1>>, <<2>>}
MockValues   == Values \cup {[nil |-> FALSE, b |-> <<2>>]}
NilValue     == [nil |-> TRUE, b |-> <<>>]

\* append([]byte(nil), v...): a copy; nil when v has no bytes
CopyBytes(v) == IF Len(v.b) = 0 THEN NilValue ELSE [nil |-> FALSE, b |-> v.b]

Seeds ==
    {<<>>,
     [k \in {<<1>>} |-> [nil |-> FALSE, b |-> <<1>>]],
     [k \in {<<2>>, <<1, 1>>} |-> [nil |-> FALSE, b |-> <<2>>]]}

MockNew(config) ==
    [store     |-> [k \in DOMAIN config.Seed |-> CopyBytes(config.Seed[k])],
     responses |-> <<>>,
     Calls     |-> <<>>]

\* what a mock operation leaves behind and returns
MockOutcome(m, res, e) == [client |-> m, result |-> res, err |-> e]

Recorded(m, call) == [m EXCEPT !.Calls = Append(@, call)]

\* m.store[key] = v
Stored(store, key, v) ==
    [k \in DOMAIN store \cup {key} |-> IF k = key THEN v ELSE store[k]]

\* delete(m.store, key)
Deleted(store, key) == [k \in DOMAIN store \ {key} |-> store[k]]

MockGet(m, key) ==
    LET m1 == Recorded(m, [Op |-> opGet, Key |-> key, Value |-> NilValue])
    IN  IF key = <<>> THEN MockOutcome(m1, NilValue, <<ErrInvalidKey>>)
        ELSE IF <<opGet, key>> \in DOMAIN m1.responses
        THEN MockOutcome(m1, m1.responses[<<opGet, key>>].Value,
                         m1.responses[<<opGet, key>>].Err)
        ELSE IF key \notin DOMAIN m1.store
        THEN MockOutcome(m1, NilValue, <<ErrKeyNotFound>>)
        ELSE MockOutcome(m1, CopyBytes(m1.store[key]), NilErr)

\* variant: Set leaves a key that is already stored as it is
MockSet_KeepsFirst(m, key, value) ==
    LET m1 == Recorded(m, [Op |-> opSet, Key |-> key, Value |-> CopyBytes(value)])
        m2 == IF key \in DOMAIN m1.store THEN m1
              ELSE [m1 EXCEPT !.store = Stored(@, key, CopyBytes(value))]
    IN  IF key = <<>> THEN MockOutcome(m1, 0, <<ErrInvalidKey>>)
        ELSE IF value.nil THEN MockOutcome(m1, 0, <<ErrInvalidValue>>)
        ELSE MockOutcome(m2, 0, NilErr)

MockSet(m, key, value) ==
    LET m1 == Recorded(m, [Op |-> opSet, Key |-> key, Value |-> CopyBytes(value)])
        m2 == [m1 EXCEPT !.store = Stored(@, key, CopyBytes(value))]
    IN  IF key = <<>> THEN MockOutcome(m1, 0, <<ErrInvalidKey>>)
        ELSE IF value.nil THEN MockOutcome(m1, 0, <<ErrInvalidValue>>)
        ELSE IF <<opSet, key>> \in DOMAIN m1.responses
        THEN IF m1.responses[<<opSet, key>>].Err # NilErr
             THEN MockOutcome(m1, 0, m1.responses[<<opSet, key>>].Err)
             ELSE IF m1.responses[<<opSet, key>>].storeOnSet
             THEN MockOutcome(m2, 0, NilErr)
             ELSE MockOutcome(m1, 0, NilErr)
        ELSE MockOutcome(m2, 0, NilErr)

MockDelete(m, key) ==
    LET m1 == Recorded(m, [Op |-> opDelete, Key |-> key, Value |-> NilValue])
    IN  IF key = <<>> THEN MockOutcome(m1, 0, <<ErrInvalidKey>>)
        ELSE IF <<opDelete, key>> \in DOMAIN m1.responses
        THEN MockOutcome(m1, 0, m1.responses[<<opDelete, key>>].Err)
        ELSE IF key \notin DOMAIN m1.store
        THEN MockOutcome(m1, 0, <<ErrKeyNotFound>>)
        ELSE MockOutcome([m1 EXCEPT !.store = Deleted(@, key)], 0, NilErr)

\* a < b for strings, byte by byte
RECURSIVE StringLess(_, _)
StringLess(a, b) ==
    IF b = <<>> THEN FALSE
    ELSE IF a = <<>> THEN TRUE
    ELSE IF Head(a) # Head(b) THEN Head(a) < Head(b)
    ELSE StringLess(Tail(a), Tail(b))

\* one key put into its place in a sorted slice
RECURSIVE Insert(_, _)
Insert(k, sorted) ==
    IF sorted = <<>> THEN <<k>>
    ELSE IF StringLess(k, Head(sorted)) THEN <<k>> \o sorted
    ELSE <<Head(sorted)>> \o Insert(k, Tail(sorted))

\* sort.Strings(keys)
RECURSIVE SortStrings(_)
SortStrings(keys) ==
    IF keys = <<>> THEN <<>>
    ELSE Insert(Head(keys), SortStrings(Tail(keys)))

\* the orders in which ranging over the map may visit its keys
Orders(store) ==
    {o \in [1..Cardinality(DOMAIN store) -> DOMAIN store] :
        \A i, j \in DOMAIN o : i # j => o[i] # o[j]}

MockKeys(m, order) ==
    LET m1 == Recorded(m, [Op |-> opKeys, Key |-> <<>>, Value |-> NilValue])
    IN  IF opKeys \in DOMAIN m1.responses
        THEN MockOutcome(m1, m1.responses[opKeys].Keys, m1.responses[opKeys].Err)
        ELSE MockOutcome(m1, SortStrings(order), NilErr)

KVMockInit ==
    /\ cfg \in [Seed : Seeds]
    /\ client = MockNew(cfg)
    /\ pc = "idle"
    /\ op = "none"
    /\ input = NoInput
    /\ host = NoHost
    /\ result = 0
    /\ err = NilErr
    /\ calls = <<>>
    /\ hist = <<>>

\* the mock operation runs to completion; the caller notes what it asked for
\* and whether it succeeded
MockInvoke(name, key, value, out) ==
    /\ pc' = "done"
    /\ op' = name
    /\ input' = [key |-> key, value |-> value]
    /\ client' = out.client
    /\ result' = out.result
    /\ err' = out.err
    /\ hist' = Append(hist, [Op |-> name, Key |-> key, Value |-> value,
                             ok |-> out.err = NilErr])
    /\ UNCHANGED <<cfg, host, calls>>

CallMockGet ==
    /\ pc = "idle"
    /\ Len(client.Calls) < MaxCalls
    /\ \E key \in MockKeyNames :
           MockInvoke(opGet, key, NilValue, MockGet(client, key))

CallMockSet ==
    /\ pc = "idle"
    /\ Len(client.Calls) < MaxCalls
    /\ \E key \in MockKeyNames, value \in MockValues :
           MockInvoke(opSet, key, value, MockSet(client, key, value))

CallMockDelete ==
    /\ pc = "idle"
    /\ Len(client.Calls) < MaxCalls
    /\ \E key \in MockKeyNames :
           MockInvoke(opDelete, key, NilValue, MockDelete(client, key))

CallMockKeys ==
    /\ pc = "idle"
    /\ Len(client.Calls) < MaxCalls
    /\ \E order \in Orders(client.store) :
           MockInvoke(opKeys, <<>>, NilValue, MockKeys(client, order))

KVMockNext ==
    \/ CallMockGet
    \/ CallMockSet
    \/ CallMockDelete
    \/ CallMockKeys
    \/ Return

KVMockSpec == KVMockInit /\ [][KVMockNext]_vars

-----------------------------------------------------------------------------
(* The kv client against a host that keeps what it is given *)

\* variant: the request is built without the value
KVStoreSet_DropsData(key, value) ==
    [Key |-> key, Data |-> <<>>]

\* &kvstore.KVStoreSet{Key: key, Data: value}: on the wire a nil and a
\* zero-length Data are the same
KVStoreSet(key, value) ==
    [Key |-> key, Data |-> value.b]

\* &kvstore.KVStoreGet{Key: key}, &kvstore.KVStoreDelete{Key: key}
KVStoreGet(key) == [Key |-> key]
KVStoreDelete(key) == [Key |-> key]

RoundTripKeys == {<<>>, <<"a">>, <<" ">>}

StoreHostOK(data) ==
    [status |-> [present |-> TRUE, code |-> statusOK, msg |-> ""],
     f1 |-> data, f2 |-> 0, junk |-> FALSE]

StoreHostMissing ==
    [status |-> [present |-> TRUE, code |-> statusNotFound, msg |-> ""],
     f1 |-> 0, f2 |-> 0, junk |-> FALSE]

\* the host function handed to the client: kvstore/set stores, kvstore/get
\* echoes what is stored, kvstore/delete removes it
StoreHost(store, function, req) ==
    CASE function = "set" ->
            [store |-> Stored(store, req.Key, req.Data), payload |-> StoreHostOK(0)]
      [] function = "get" ->
            IF req.Key \in DOMAIN store
            THEN [store |-> store, payload |-> StoreHostOK(store[req.Key])]
            ELSE [store |-> store, payload |-> StoreHostMissing]
      [] function = "delete" ->
            [store |-> Deleted(store, req.Key), payload |-> StoreHostOK(0)]

RoundTripInit ==
    /\ cfg \in [Namespace : Namespaces]
    /\ client = New(cfg)
    /\ pc = "idle"
    /\ op = "none"
    /\ input = NoInput
    /\ host = [payload |-> EmptyPayload, callErr |-> NoErr, store |-> <<>>]
    /\ result = 0
    /\ err = NilErr
    /\ calls = <<>>
    /\ hist = <<>>

\* the operation runs against the host's answer to its request; the host
\* changes only when the call reaches it
StoreInvoke(name, in, answer, out) ==
    /\ pc' = "done"
    /\ op' = name
    /\ input' = in
    /\ host' = IF out.calls = <<>> THEN host
               ELSE [payload |-> answer.payload, callErr |-> NoErr, store |-> answer.store]
    /\ result' = out.result
    /\ err' = out.err
    /\ calls' = out.calls
    /\ hist' = Append(hist, [Op |-> name, Key |-> in.s, Value |-> in.value,
                             ok |-> out.err = NilErr])
    /\ UNCHANGED <<cfg, client>>

StoreSet ==
    /\ pc = "idle"
    /\ Len(hist) < MaxCalls
    /\ \E key \in RoundTripKeys, value \in MockValues :
           LET answer == StoreHost(host.store, "set", KVStoreSet(key, value))
           IN  StoreInvoke("kv.Set", [NoInput EXCEPT !.s = key, !.value = value], answer,
                           KVSet(client, key, value, [payload |-> answer.payload,
                                                      callErr |-> NoErr]))

StoreGet ==
    /\ pc = "idle"
    /\ Len(hist) < MaxCalls
    /\ \E key \in RoundTripKeys :
           LET answer == StoreHost(host.store, "get", KVStoreGet(key))
           IN  StoreInvoke("kv.Get", [NoInput EXCEPT !.s = key], answer,
                           KVGet(client, key, [payload |-> answer.payload,
                                               callErr |-> NoErr]))

StoreDelete ==
    /\ pc = "idle"
    /\ Len(hist) < MaxCalls
    /\ \E key \in RoundTripKeys :
           LET answer == StoreHost(host.store, "delete", KVStoreDelete(key))
           IN  StoreInvoke("kv.Delete", [NoInput EXCEPT !.s = key], answer,
                           KVDelete(client, key, [payload |-> answer.payload,
                                                  callErr |-> NoErr]))

StoreReturn ==
    /\ pc = "done"
    /\ pc' = "idle"
    /\ op' = "none"
    /\ input' = NoInput
    /\ result' = 0
    /\ err' = NilErr
    /\ calls' = <<>>
    /\ UNCHANGED <<cfg, client, host, hist>>

RoundTripNext ==
    \/ StoreSet
    \/ StoreGet
    \/ StoreDelete
    \/ StoreReturn

RoundTripSpec == RoundTripInit /\ [][RoundTripNext]_vars

-----------------------------------------------------------------------------
(* Two callers sharing one client *)

Procs == {1, 2}

\* variant: the method keeps the name of the running operation in the client
AfterCall_KeepsScratch(c, name) ==
    [c EXCEPT !.runtime.Namespace = name]

\* the receiver once a method has run on it: no method of the kv, sql or
\* httpclient clients assigns a field of its receiver
AfterCall(c, name) ==
    c

\* the operations the two callers choose from
SharedCalls ==
    {[name |-> "kv.Get",    in |-> [NoInput EXCEPT !.s = <<"a">>]],
     [name |-> "kv.Get",    in |-> NoInput],
     [name |-> "kv.Set",    in |-> [NoInput EXCEPT !.s = <<"a">>,
                                                   !.value = [nil |-> FALSE, b |-> <<1>>]]],
     [name |-> "kv.Delete", in |-> [NoInput EXCEPT !.s = <<"a">>]],
     [name |-> "sql.Exec",  in |-> [NoInput EXCEPT !.s = <<"a">>]],
     [name |-> "sql.Query", in |-> NoInput],
     [name |-> "http.Get",  in |-> [NoInput EXCEPT !.url = CHOOSE u \in URLs : ~InvalidURL(u)]],
     [name |-> "http.Post", in |-> [NoInput EXCEPT !.url = CHOOSE u \in URLs : ~InvalidURL(u),
                                                   !.body = "bad"]]}

\* the answers the host gives them
SharedResponses ==
    {h \in HostResponses :
        /\ h.payload.f1 = 1 /\ h.payload.f2 = 1
        /\ h.payload.status.msg = ""
        /\ h.payload.status.code \in {0, hostStatusOK, hostStatusMissing, hostStatusError}}

SharedInit ==
    /\ cfg \in [Namespace : Namespaces]
    /\ client = New(cfg)
    /\ pc = [p \in Procs |-> "idle"]
    /\ op = [p \in Procs |-> "none"]
    /\ input = [p \in Procs |-> NoInput]
    /\ host = [p \in Procs |-> NoHost]
    /\ result = [p \in Procs |-> 0]
    /\ err = [p \in Procs |-> NilErr]
    /\ calls = [p \in Procs |-> <<>>]
    /\ hist = <<>>

\* caller p enters an operation: the arguments are validated and, when they
\* pass, the request goes to the host under the client's namespace
Enter(p) ==
    /\ pc[p] = "idle"
    /\ \E call \in SharedCalls :
           LET out == Run(client, call.name, call.in, NoHost)
           IN  /\ op' = [op EXCEPT ![p] = call.name]
               /\ input' = [input EXCEPT ![p] = call.in]
               /\ calls' = [calls EXCEPT ![p] = out.calls]
               /\ IF out.calls = <<>>
                  THEN /\ pc' = [pc EXCEPT ![p] = "done"]
                       /\ result' = [result EXCEPT ![p] = out.result]
                       /\ err' = [err EXCEPT ![p] = out.err]
                  ELSE /\ pc' = [pc EXCEPT ![p] = "called"]
                       /\ UNCHANGED <<result, err>>
               /\ client' = AfterCall(client, call.name)
    /\ UNCHANGED <<cfg, host, hist>>

\* the host call of caller p returns and the operation runs to its end
Leave(p) ==
    /\ pc[p] = "called"
    /\ \E h \in SharedResponses :
           LET out == Run(client, op[p], input[p], h)
           IN  /\ host' = [host EXCEPT ![p] = h]
               /\ result' = [result EXCEPT ![p] = out.result]
               /\ err' = [err EXCEPT ![p] = out.err]
    /\ pc' = [pc EXCEPT ![p] = "done"]
    /\ client' = AfterCall(client, op[p])
    /\ UNCHANGED <<cfg, op, input, calls, hist>>

\* caller p takes the outcome
Forget(p) ==
    /\ pc[p] = "done"
    /\ pc' = [pc EXCEPT ![p] = "idle"]
    /\ op' = [op EXCEPT ![p] = "none"]
    /\ input' = [input EXCEPT ![p] = NoInput]
    /\ host' = [host EXCEPT ![p] = NoHost]
    /\ result' = [result EXCEPT ![p] = 0]
    /\ err' = [err EXCEPT ![p] = NilErr]
    /\ calls' = [calls EXCEPT ![p] = <<>>]
    /\ UNCHANGED <<cfg, client, hist>>

SharedNext ==
    \E p \in Procs :
        \/ Enter(p)
        \/ Leave(p)
        \/ Forget(p)

SharedSpec == SharedInit /\ [][SharedNext]_vars

-----------------------------------------------------------------------------
(* Vocabulary of the properties *)

\* the operation named by ops ran and reached the host
Reached(ops) == pc = "done" /\ op \in ops /\ calls # <<>>

TransportFailed == host.callErr # NoErr
Decodable       == ~host.payload.junk
HostStatus(c)   == host.payload.status.present /\ host.payload.status.code = c

\* the typed result carries the envelope's fields
ResultFromEnvelope ==
    /\ op = "sql.Exec" =>
          result = [LastInsertID |-> host.payload.f1, RowsAffected |-> host.payload.f2]
    /\ op = "sql.Query" =>
          result = [Columns |-> host.payload.f1, Data |-> host.payload.f2]
    /\ op \in HTTPOps =>
          /\ result.StatusCode = host.payload.f1
          /\ result.Body = host.payload.f2

\* the decode failure is identifiable in the error: by the package sentinel
\* in sql and httpclient, by the wrapped decoder error in kv
IsDecodeError(e) ==
    IF op \in KVOps THEN Is(e, UnmarshalErr)
    ELSE Is(e, ErrUnmarshalResponse) /\ Is(e, UnmarshalErr)

IsTransportError(e) == Is(e, ErrHostCall) /\ Is(e, TransportErr)

ValidationErrors ==
    {ErrInvalidKey, ErrInvalidValue, ErrInvalidQuery, ErrInvalidURL, ErrInvalidMethod,
     ErrNilRequest, ErrReadBody, ErrInvalidFunctionName}

-----------------------------------------------------------------------------
(* Properties *)

\* C1: an Exec or Query whose host call reports no transport error and whose
\* decoded envelope carries status 206 returns the result populated from the
\* envelope together with a non-nil error that is ErrPartialResult.
C1_PartialResultFlagged ==
    (Reached(SQLOps) /\ ~TransportFailed /\ Decodable /\ HostStatus(hostStatusPartial))
        => /\ ResultFromEnvelope
           /\ err # NilErr
           /\ Is(err, ErrPartialResult)

\* C2: whenever the host call of a KV, SQL or HTTP operation returned a
\* transport error and the operation returns an error, that error is
\* ErrHostCall and still wraps the transport error, whatever the payload.
C2_TransportCauseKept ==
    (Reached(KVOps \cup SQLOps \cup HTTPOps) /\ TransportFailed /\ err # NilErr)
        => IsTransportError(err)

\* C3 (as stated): an undecodable payload always yields an error that
\* identifies the decode failure, and the transport failure too when there
\* was one.
C3_DecodeErrorAlways ==
    (Reached(KVOps \cup SQLOps \cup HTTPOps) /\ ~Decodable)
        => /\ IsDecodeError(err)
           /\ TransportFailed => Is(err, ErrHostCall)

\* C3 (amended): for KV and SQL an undecodable payload yields an error that
\* identifies the decode failure, and the transport failure too when there
\* was one; the HTTP client identifies the decode failure only when the host
\* call reported no transport error, and otherwise returns the transport
\* error alone without decoding the payload.
C3_DecodeErrorComposed ==
    (Reached(KVOps \cup SQLOps \cup HTTPOps) /\ ~Decodable)
        => /\ op \in KVOps \cup SQLOps =>
                 /\ IsDecodeError(err)
                 /\ TransportFailed => IsTransportError(err)
           /\ op \in HTTPOps =>
                 IF TransportFailed
                 THEN IsTransportError(err) /\ ~IsDecodeError(err)
                 ELSE IsDecodeError(err)

C3_Witness ==
    /\ Reached(KVOps \cup SQLOps) /\ ~Decodable /\ TransportFailed
    /\ IsDecodeError(err) /\ IsTransportError(err)

\* C4: an Exec or Query whose host call returns a transport error together
\* with a decodable payload of status 200 returns the result populated from
\* the payload and a nil error.
C4_SQLSuccessHonored ==
    (Reached(SQLOps) /\ TransportFailed /\ Decodable /\ HostStatus(hostStatusOK))
        => ResultFromEnvelope /\ err = NilErr

C4_Witness ==
    /\ Reached(SQLOps) /\ TransportFailed /\ Decodable /\ HostStatus(hostStatusOK)
    /\ host.payload.f1 # 0 /\ host.payload.f2 # 0
    /\ err = NilErr

\* C5 (as stated): an HTTP call whose host call returns a transport error
\* together with a decodable payload of host status 200 returns the
\* populated response and a nil error.
C5_HTTPSuccessHonored ==
    (Reached(HTTPOps) /\ TransportFailed /\ Decodable /\ HostStatus(hostStatusOK))
        => ResultFromEnvelope /\ err = NilErr

\* C5 (amended): an HTTP call whose host call returns a transport error
\* together with a decodable payload of host status 200 returns an empty
\* Response and an error that is ErrHostCall and wraps the transport error;
\* the payload is not used.
C5_HTTPTransportFatal ==
    (Reached(HTTPOps) /\ TransportFailed /\ Decodable /\ HostStatus(hostStatusOK))
        => /\ result = ZeroResponse
           /\ IsTransportError(err)
           /\ Len(err) = 2

C5_Witness ==
    /\ Reached(HTTPOps) /\ TransportFailed /\ Decodable /\ HostStatus(hostStatusOK)
    /\ host.payload.f1 # 0
    /\ result = ZeroResponse

\* C6 (as stated): a KV Get, Set, Delete or Keys whose host call returns a
\* transport error returns a non-nil error that is ErrHostCall, even when
\* the payload decodes to status 200.
C6_KVTransportFatal ==
    (Reached(KVOps) /\ TransportFailed)
        => err # NilErr /\ Is(err, ErrHostCall)

\* C6 (amended): a KV Get, Set, Delete or Keys whose host call returns a
\* transport error returns a non-nil error that is ErrHostCall when the
\* payload is empty or cannot be decoded; when the payload decodes to status
\* 200 the success is honored and the error is nil.
C6_KVTransportByPayload ==
    (Reached(KVOps) /\ TransportFailed)
        => /\ (IsEmpty(host.payload) \/ ~Decodable) =>
                 err # NilErr /\ IsTransportError(err)
           /\ (Decodable /\ HostStatus(statusOK)) => err = NilErr

C6_Witness ==
    /\ Reached(KVOps) /\ TransportFailed
    /\ Decodable /\ HostStatus(statusOK) /\ err = NilErr

\* C7: an Exec or Query whose host call returns a transport error together
\* with a decodable payload of status 206 returns the result populated from
\* the payload and an error that is ErrPartialResult and carries the
\* transport failure as a cause.
C7_PartialWithTransportCause ==
    (Reached(SQLOps) /\ TransportFailed /\ Decodable /\ HostStatus(hostStatusPartial))
        => /\ ResultFromEnvelope
           /\ Is(err, ErrPartialResult)
           /\ Is(err, TransportErr)

\* C8 (as stated): a KV Get, Set or Delete called with an empty or
\* whitespace-only key returns ErrInvalidKey and makes no host call.
C8_BlankKeyRejected ==
    (pc = "done" /\ op \in {"kv.Get", "kv.Set", "kv.Delete"} /\ TrimSpaceIsEmpty(input.s))
        => err = <<ErrInvalidKey>> /\ calls = <<>>

\* C8 (amended): a KV Get, Set or Delete called with an empty key returns
\* ErrInvalidKey and makes no host call; a whitespace-only key is not
\* rejected as an invalid key.
C8_EmptyKeyRejected ==
    (pc = "done" /\ op \in {"kv.Get", "kv.Set", "kv.Delete"})
        => /\ input.s = <<>> => err = <<ErrInvalidKey>> /\ calls = <<>>
           /\ input.s # <<>> => ~Is(err, ErrInvalidKey)

C8_Witness ==
    /\ pc = "done" /\ op = "kv.Delete" /\ input.s = <<>>
    /\ err = <<ErrInvalidKey>> /\ calls = <<>>

\* C9: an Exec or Query called with an empty or whitespace-only query returns
\* ErrInvalidQuery with a zero result and makes no host call.
C9_BlankQueryRejected ==
    (pc = "done" /\ op \in SQLOps /\ TrimSpaceIsEmpty(input.s))
        => /\ err = <<ErrInvalidQuery>>
           /\ result \in {ZeroExecResult, ZeroQueryResult}
           /\ calls = <<>>

\* C10: whenever an operation returns a local validation error, it made no
\* host call and the error is none of the transport, decode or status errors.
C10_ValidationIsLocal ==
    (pc = "done" /\ \E v \in ValidationErrors : Is(err, v))
        => /\ calls = <<>>
           /\ ~Is(err, ErrHostCall) /\ ~Is(err, TransportErr)
           /\ ~Is(err, ErrUnmarshalResponse) /\ ~Is(err, UnmarshalErr)
           /\ ~Is(err, ErrHostError) /\ ~Is(err, ErrHostResponseInvalid)
           /\ ~Is(err, ErrPartialResult)

C10_Witness ==
    /\ pc = "done" /\ op = "http.Post" /\ Is(err, ErrReadBody)
    /\ host.callErr # NoErr /\ calls = <<>>

-----------------------------------------------------------------------------
(* Status classification *)

EnvelopeOps == KVOps \cup SQLOps \cup HTTPOps

\* the client got as far as reading the status of the envelope: httpclient
\* decodes only when the host call reported no error
EnvelopeDecoded == Decodable /\ (op \in HTTPOps => ~TransportFailed)

KnownStatusCodes ==
    {hostStatusOK, hostStatusPartial, hostStatusBadInput, hostStatusMissing, hostStatusError}

\* the value an operation returns next to a failure
ZeroResultOf(o) ==
    IF o \in KVOps THEN NilBytes
    ELSE IF o = "sql.Exec" THEN ZeroExecResult
    ELSE IF o = "sql.Query" THEN ZeroQueryResult
    ELSE ZeroResponse

\* the result of a KV operation as the envelope determines it
KVResultFromEnvelope ==
    /\ op \in {"kv.Get", "kv.Keys"} => result = host.payload.f1
    /\ op \in {"kv.Set", "kv.Delete"} => result = NilBytes

Sentinels ==
    {ErrHostCall, ErrHostResponseInvalid, ErrHostError, ErrKeyNotFound,
     ErrUnmarshalResponse, ErrPartialResult, TransportErr, UnmarshalErr}
        \cup ValidationErrors

\* what a caller can tell about an outcome without reading message text
Classification(out) ==
    [ok     |-> out.err = NilErr,
     ids    |-> {t \in Sentinels : Is(out.err, t)},
     result |-> out.result,
     calls  |-> out.calls]

WithMessage(h, m) == [h EXCEPT !.payload.status.msg = m]

\* C11: a KV, SQL or HTTP call whose host call reports no transport error and
\* returns an empty payload ends with a non-nil error that is
\* ErrHostResponseInvalid; it never ends in success.
C11_EmptyPayloadInvalid ==
    (Reached(EnvelopeOps) /\ ~TransportFailed /\ IsEmpty(host.payload))
        => /\ err # NilErr
           /\ Is(err, ErrHostResponseInvalid)

C11_Witness ==
    /\ Reached(HTTPOps) /\ ~TransportFailed /\ IsEmpty(host.payload)
    /\ Is(err, ErrHostResponseInvalid)
    /\ result = ZeroResponse

C13_FailureStatusIsHostError ==
    (/\ Reached(EnvelopeOps) /\ EnvelopeDecoded
     /\ host.payload.status.present
     /\ host.payload.status.code \in {hostStatusBadInput, hostStatusMissing, hostStatusError}
     /\ ~(op \in {"kv.Get", "kv.Delete"} /\ host.payload.status.code = statusNotFound))
        => /\ result = ZeroResultOf(op)
           /\ Is(err, ErrHostError)
           /\ ~Is(err, ErrHostResponseInvalid)

\* C13 (amended): SQL and HTTP calls report 400, 404 and 500, and KV calls
\* report 500, as ErrHostError and not as ErrHostResponseInvalid; KV calls
\* report 400, and Set and Keys report 404, as ErrHostResponseInvalid and not
\* as ErrHostError.  The result is the zero value in every one of these cases.
C13_FailureStatusByClient ==
    (/\ Reached(EnvelopeOps) /\ EnvelopeDecoded
     /\ host.payload.status.present
     /\ host.payload.status.code \in {hostStatusBadInput, hostStatusMissing, hostStatusError}
     /\ ~(op \in {"kv.Get", "kv.Delete"} /\ host.payload.status.code = statusNotFound))
        => /\ result = ZeroResultOf(op)
           /\ IF op \in KVOps /\ host.payload.status.code # statusError
              THEN Is(err, ErrHostResponseInvalid) /\ ~Is(err, ErrHostError)
              ELSE Is(err, ErrHostError) /\ ~Is(err, ErrHostResponseInvalid)

C13_Witness ==
    /\ Reached({"kv.Keys"}) /\ EnvelopeDecoded /\ ~TransportFailed
    /\ HostStatus(statusError)
    /\ host.payload.f1 # 0
    /\ result = NilBytes
    /\ Is(err, ErrHostError)

\* C14: had the host answered with the same status code and a different
\* status message, the operation would have ended the same way: the same
\* nil-or-not error, the same error identities, the same result and the same
\* host calls.
C14_MessageIsAdvisory ==
    (Reached(EnvelopeOps) /\ host.payload.status.present)
        => \A m \in StatusMsgs :
              Classification(Run(client, op, input, WithMessage(host, m)))
                  = Classification(Outcome(result, err, calls))

C14_Witness ==
    /\ Reached({"sql.Exec"}) /\ EnvelopeDecoded /\ ~TransportFailed
    /\ HostStatus(hostStatusError)
    /\ host.payload.status.msg # ""
    /\ Is(err, ErrHostError)
    /\ Is(err, Detail("host status", hostStatusError, host.payload.status.msg))

\* C15 (as stated): an HTTP or KV call whose host call reports no transport
\* error and whose decoded envelope carries status 206 returns the result
\* populated from the envelope together with a non-nil error that is
\* ErrPartialResult.
C15_PartialFlaggedHTTPAndKV ==
    (/\ Reached(HTTPOps \cup KVOps) /\ ~TransportFailed /\ Decodable
     /\ HostStatus(hostStatusPartial))
        => /\ ResultFromEnvelope
           /\ KVResultFromEnvelope
           /\ err # NilErr
           /\ Is(err, ErrPartialResult)

\* C15 (amended): with no transport error and a decoded status 206, an HTTP
\* call returns the Response populated from the envelope and a nil error, and
\* a KV call returns no data and an error that is ErrHostResponseInvalid;
\* neither returns an error that is ErrPartialResult.
C15_PartialByClient ==
    (/\ Reached(HTTPOps \cup KVOps) /\ ~TransportFailed /\ Decodable
     /\ HostStatus(hostStatusPartial))
        => /\ ~Is(err, ErrPartialResult)
           /\ op \in HTTPOps =>
                 /\ ResultFromEnvelope
                 /\ result.Status = StatusText(host.payload.f1)
                 /\ err = NilErr
           /\ op \in KVOps =>
                 /\ result = NilBytes
                 /\ Is(err, ErrHostResponseInvalid)

C15_Witness ==
    /\ Reached({"http.Do"}) /\ ~TransportFailed /\ Decodable
    /\ HostStatus(hostStatusPartial)
    /\ host.payload.f1 = 200 /\ host.payload.f2 # 0
    /\ result = [StatusCode |-> 200, Status |-> StatusText(200), Body |-> host.payload.f2]
    /\ err = NilErr

\* C16: a KV Get with a non-empty key whose host call returns a decodable
\* envelope with status 404 returns nil data and an error that is
\* ErrKeyNotFound and is not ErrHostError.
C16_GetMissingKey ==
    (/\ Reached({"kv.Get"}) /\ input.s # <<>> /\ Decodable
     /\ HostStatus(statusNotFound))
        => /\ result = NilBytes
           /\ Is(err, ErrKeyNotFound)
           /\ ~Is(err, ErrHostError)

C16_Witness ==
    /\ Reached({"kv.Get"}) /\ input.s # <<>> /\ Decodable
    /\ HostStatus(statusNotFound)
    /\ host.payload.f1 # 0
    /\ result = NilBytes
    /\ err = <<ErrKeyNotFound>>

\* C17: a KV Delete with a non-empty key whose host call reports no transport
\* error and answers with status 404 returns a nil error.
C17_DeleteMissingKey ==
    (/\ Reached({"kv.Delete"}) /\ input.s # <<>> /\ ~TransportFailed /\ Decodable
     /\ HostStatus(statusNotFound))
        => err = NilErr

C17_Witness ==
    /\ Reached({"kv.Delete"}) /\ input.s # <<>> /\ ~TransportFailed /\ Decodable
    /\ HostStatus(statusNotFound)
    /\ err = NilErr

\* C18: a KV Set with a non-empty key and a nil value returns ErrInvalidValue
\* without a host call; with a non-empty key and any non-nil value, a
\* zero-length one included, it passes validation and issues the kvstore/set
\* host call.
C18_OnlyNilValueRejected ==
    (pc = "done" /\ op = "kv.Set" /\ input.s # <<>>)
        => IF input.value.nil
           THEN Is(err, ErrInvalidValue) /\ calls = <<>>
           ELSE /\ ~Is(err, ErrInvalidValue)
                /\ calls = <<Address(client.runtime.Namespace, "kvstore", "set")>>

\* C19: a KV, SQL or HTTP call whose host call reports no transport error and
\* returns a well-formed envelope with status 200 returns the result populated
\* from the envelope and a nil error.
C19_SuccessPopulated ==
    (/\ Reached(EnvelopeOps) /\ ~TransportFailed /\ Decodable
     /\ HostStatus(hostStatusOK))
        => /\ err = NilErr
           /\ ResultFromEnvelope
           /\ op \in HTTPOps => result.Status = StatusText(host.payload.f1)
           /\ op \in KVOps => KVResultFromEnvelope

C19_Witness ==
    /\ Reached({"sql.Exec"}) /\ ~TransportFailed /\ Decodable
    /\ HostStatus(hostStatusOK)
    /\ host.payload.f1 = 200 /\ host.payload.f2 = 1
    /\ result = [LastInsertID |-> 200, RowsAffected |-> 1]
    /\ err = NilErr

\* C20: a KV, SQL, HTTP or function call whose host call fails with a
\* transport error and an empty payload returns the zero result and an error
\* that is ErrHostCall and is the original transport error.
C20_TransportFailureEmptyPayload ==
    (/\ Reached(EnvelopeOps \cup {"function.Call"})
     /\ TransportFailed /\ IsEmpty(host.payload))
        => /\ result = (IF op = "function.Call" THEN EmptyPayload ELSE ZeroResultOf(op))
           /\ Is(err, ErrHostCall)
           /\ Is(err, TransportErr)

C20_Witness ==
    /\ Reached({"function.Call"}) /\ TransportFailed /\ IsEmpty(host.payload)
    /\ result = EmptyPayload
    /\ err = <<ErrHostCall, TransportErr>>

-----------------------------------------------------------------------------
(* HTTP specifics; the number of host calls *)

\* the method and the URL host of the request an HTTP operation is given
MethodOf ==
    CASE op = "http.Get"    -> "GET"
      [] op = "http.Post"   -> "POST"
      [] op = "http.Put"    -> "PUT"
      [] op = "http.Delete" -> "DELETE"
      [] op = "http.Do"     -> input.req.Method

URLHasHost ==
    IF op = "http.Do" THEN ~input.req.URL.nil /\ input.req.URL.Host # ""
    ELSE ~InvalidURL(input.url)

PassedValidation == \A v \in ValidationErrors : ~Is(err, v)

\* C21: in an HTTP call that was decoded, success depends on the host status
\* code alone (200 or 206), whatever the envelope's HTTP code; on success the
\* returned StatusCode is the envelope's code and Status its standard text,
\* empty when the code has none; on failure the Response is empty.
C21_CodesKeptApart ==
    (Reached(HTTPOps) /\ EnvelopeDecoded)
        => /\ err = NilErr <=>
                 /\ host.payload.status.present
                 /\ host.payload.status.code \in {hostStatusOK, hostStatusPartial}
           /\ err = NilErr =>
                 /\ result.StatusCode = host.payload.f1
                 /\ result.Status = StatusText(host.payload.f1)
           /\ err # NilErr => result = ZeroResponse

C21_Witness ==
    /\ Reached({"http.Get"}) /\ EnvelopeDecoded
    /\ HostStatus(hostStatusPartial)
    /\ host.payload.f1 = 0
    /\ result.StatusCode = 0 /\ result.Status = ""
    /\ err = NilErr

\* C22 (as stated): every HTTP operation that reaches the host call has a
\* method in the allow-list and a URL with a host; an operation given another
\* method or a URL without a host fails with ErrInvalidMethod or
\* ErrInvalidURL and makes no host call.
C22_MethodAndURLValidated ==
    (pc = "done" /\ op \in HTTPOps /\ ~(op = "http.Do" /\ input.req.nil))
        => /\ calls # <<>> => isValidMethod(MethodOf) /\ URLHasHost
           /\ ~(isValidMethod(MethodOf) /\ URLHasHost) =>
                 /\ calls = <<>>
                 /\ Is(err, ErrInvalidMethod) \/ Is(err, ErrInvalidURL)

\* C22 (amended): every HTTP operation that reaches the host call has a URL
\* with a host, and an operation given a URL without one fails with
\* ErrInvalidURL and makes no host call.  The method is checked by NewRequest
\* only: Do never returns ErrInvalidMethod, and a Request with a host, a
\* readable body and a method outside the allow-list reaches the host call.
C22_URLValidatedMethodNot ==
    /\ (pc = "done" /\ op \in HTTPOps /\ ~(op = "http.Do" /\ input.req.nil))
          => /\ calls # <<>> => URLHasHost
             /\ ~URLHasHost => calls = <<>> /\ err = <<ErrInvalidURL>>
             /\ ~Is(err, ErrInvalidMethod)
             /\ (op = "http.Do" /\ URLHasHost /\ ~ReadFails(input.req.Body))
                   => calls # <<>>
    /\ (pc = "done" /\ op = "http.NewRequest" /\ ~isValidMethod(input.method))
          => result = NilRequest /\ err = <<ErrInvalidMethod>>

C22_Witness ==
    /\ pc = "done" /\ op = "http.Do" /\ ~input.req.nil
    /\ ~isValidMethod(input.req.Method)
    /\ URLHasHost
    /\ calls # <<>>
    /\ err = NilErr

\* C24: an operation that passes local validation invokes the host exactly
\* once, however the call ends; an operation that fails validation invokes
\* it not at all.
C24_OneHostCall ==
    (pc = "done" /\ op \in EnvelopeOps \cup {"function.Call"})
        => Len(calls) = (IF PassedValidation THEN 1 ELSE 0)

C24_Witness ==
    /\ Reached({"sql.Query"}) /\ TransportFailed /\ ~IsEmpty(host.payload)
    /\ Is(err, ErrHostCall)
    /\ Len(calls) = 1

\* the namespace every host call of the client is to carry
ConstructedNamespace ==
    IF cfg.Namespace = "" THEN DefaultNamespace ELSE cfg.Namespace

\* C23: at every point of a client's lifetime its namespace is the one it was
\* constructed with, or "tarmac" when none was supplied, and every host call
\* it issues carries that namespace; neither an operation nor a write to the
\* value Config() returned changes it.
C23_NamespaceFixed ==
    /\ client.runtime.Namespace = ConstructedNamespace
    /\ \A i \in 1..Len(calls) : calls[i].ns = ConstructedNamespace
    /\ (pc = "done" /\ op = "kv.Config" /\ result.value.Namespace # "mutated")
          => result.value.Namespace = ConstructedNamespace

C23_Witness ==
    /\ pc = "done" /\ op = "kv.Config"
    /\ cfg.Namespace = ""
    /\ result.value.Namespace = "mutated"
    /\ client.runtime.Namespace = "tarmac"

C23_CallWitness ==
    /\ Reached(EnvelopeOps)
    /\ cfg.Namespace = "custom"
    /\ calls[1].ns = "custom"

-----------------------------------------------------------------------------
(* hostmock *)

RoutingMatches ==
    /\ input.namespace = client.ExpectedNamespace
    /\ input.capability = client.ExpectedCapability
    /\ input.function = client.ExpectedFunction

\* C27: a hostmock configured with Fail, a custom Error and a Response
\* function answers a call with matching namespace, capability and function
\* with the configured error together with the configured response bytes.
C27_FailReturnsResponse ==
    (/\ pc = "done" /\ op = "hostmock.HostCall"
     /\ client.Fail /\ client.Error # "nil" /\ client.Response # "nil"
     /\ RoutingMatches)
        => /\ err = <<ErrMockError>>
           /\ result = "bytes"

\* C28: with Fail unset, a hostmock checks only the expected routing values
\* that were set: a blank ExpectedNamespace, ExpectedCapability or
\* ExpectedFunction accepts any value and never produces the corresponding
\* unexpected-namespace, -capability or -function error.
C28_BlankRoutingIsWildcard ==
    (pc = "done" /\ op = "hostmock.HostCall" /\ ~client.Fail)
        => /\ client.ExpectedNamespace = "" => ~Is(err, ErrUnexpectedNamespace)
           /\ client.ExpectedCapability = "" => ~Is(err, ErrUnexpectedCapability)
           /\ client.ExpectedFunction = "" => ~Is(err, ErrUnexpectedFunction)

-----------------------------------------------------------------------------
(* kv/mock *)

NotFound == [found |-> FALSE, v |-> NilValue]

\* the value of the most recent successful Set of k in h that no successful
\* Delete of k follows; the seed counts as Sets made before h
RECURSIVE Latest(_, _)
Latest(h, k) ==
    IF h = <<>>
    THEN IF k \in DOMAIN cfg.Seed THEN [found |-> TRUE, v |-> cfg.Seed[k]] ELSE NotFound
    ELSE LET e == h[Len(h)]
         IN  IF e.Key = k /\ e.ok /\ e.Op = opSet THEN [found |-> TRUE, v |-> e.Value]
             ELSE IF e.Key = k /\ e.ok /\ e.Op = opDelete THEN NotFound
             ELSE Latest(SubSeq(h, 1, Len(h) - 1), k)

Ascending(keys) ==
    \A i \in 1..Len(keys) - 1 : StringLess(keys[i], keys[i + 1])

\* C29: Delete of a non-empty key that is not in the mock's store returns a
\* nil error and leaves the store as it was.
C29_MockDeleteMissingKey ==
    [][(/\ pc' = "done" /\ op' = opDelete
        /\ input'.key # <<>>
        /\ input'.key \notin DOMAIN client.store)
          => /\ err' = NilErr
             /\ client'.store = client.store]_vars

C30_KeysWitness ==
    /\ pc = "done" /\ op = opKeys
    /\ hist[1].Op = opDelete /\ hist[1].ok
    /\ hist[2].Op = opSet /\ hist[2].ok
    /\ result = <<<<1>>, <<1, 1>>>>

-----------------------------------------------------------------------------
(* Round trip *)

\* the position in h of the last Set or Delete of k, 0 when there is none
RECURSIVE LastWrite(_, _)
LastWrite(h, k) ==
    IF h = <<>> THEN 0
    ELSE IF h[Len(h)].Key = k /\ h[Len(h)].Op \in {"kv.Set", "kv.Delete"} THEN Len(h)
    ELSE LastWrite(SubSeq(h, 1, Len(h) - 1), k)

\* C25: against a host that stores on kvstore/set and echoes on kvstore/get,
\* a Get(k) whose last preceding Set or Delete of k is a Set(k, v) with a
\* non-empty key and a non-empty value returns exactly v and a nil error.
C25_SetThenGet ==
    (/\ pc = "done" /\ op = "kv.Get" /\ input.s # <<>>
     /\ LastWrite(hist, input.s) # 0
     /\ hist[LastWrite(hist, input.s)].Op = "kv.Set"
     /\ hist[LastWrite(hist, input.s)].Value.b # <<>>)
        => /\ err = NilErr
           /\ result = hist[LastWrite(hist, input.s)].Value.b

C25_Witness ==
    /\ pc = "done" /\ op = "kv.Get" /\ Len(hist) = 3
    /\ hist[1].Op = "kv.Set" /\ hist[1].Key = input.s /\ hist[1].Value.b = <<1>>
    /\ hist[2].Op = "kv.Set" /\ hist[2].Key = input.s /\ hist[2].Value.b = <<2>>
    /\ err = NilErr
    /\ result = <<2>>

-----------------------------------------------------------------------------
(* Shared client *)

====
